---- MODULE Spec2Model ----
(***************************************************************************)
(* The retrieval-augmented question-answering pipeline of the support      *)
(* assistant: the indexing run of document_processor.py (find, load,       *)
(* split, build, save), the Chatbot of chatbot.py (index load, the         *)
(* history-wrapped retrieval chain, ask, get_history_as_string) and the    *)
(* callers that drive them.                                                *)
(*                                                                         *)
(* Library calls are modelled by what they do to the program's state:      *)
(* RunnableWithMessageHistory fetches the session's history object through *)
(* get_session_history, reads a copy of its messages, runs the wrapped     *)
(* chain and, only when the chain returned, appends the input message and  *)
(* then the output message to that object; FAISS.save_local writes         *)
(* index.faiss and then index.pkl into the index directory, and            *)
(* FAISS.load_local reads them back in the same order.                     *)
(***************************************************************************)
EXTENDS Integers, Sequences, FiniteSets, TLC

\* ------------------------------------------------------------------ bounds
\* Total number of ask calls made in a behaviour.
MaxAsks == 2
\* Number of indexing runs started in a behaviour.
MaxBuilds == 1
\* Longest directory listing the indexing run is given.
MaxPaths == 2
\* Number of nearest chunks the retriever returns (the library's default is
\* larger than the indices built here; scaled to the model's index sizes).
RetrieverK == 2
MaxInputs == 4

\* ------------------------------------------------------- program constants
CHUNK_SIZE == 800
CHUNK_OVERLAP == 120

None == "None"

\* An attribute that may be unset, a file that may be missing, a metadata
\* key that may be absent: the empty tuple, or the value in a 1-tuple.
Absent == <<>>
Some(x) == <<x>>

\* ------------------------------------------------------------- file system
\* The files a documents tree can hold.  `loads` says whether the file's
\* loader returns (TRUE) or raises (FALSE); `texts` are the texts of the
\* documents it yields (one per page for a PDF, one for a text file).  A
\* text is the sequence of the lengths of its words, each word but the first
\* counted with the space before it: <<1500>> is 1500 characters without a
\* separator, <<>> the empty text.
FileA == [name |-> "a.txt", suffix |-> ".txt", loads |-> TRUE,  texts |-> <<<<1500>>>>]
FileB == [name |-> "B.MD",  suffix |-> ".MD",  loads |-> FALSE, texts |-> <<>>]
FileC == [name |-> "c.pdf", suffix |-> ".pdf", loads |-> TRUE,  texts |-> <<<<500>>, <<900>>>>]
FileD == [name |-> "d.pdf", suffix |-> ".pdf", loads |-> FALSE, texts |-> <<>>]
FileE == [name |-> "e.csv", suffix |-> ".csv", loads |-> TRUE,  texts |-> <<<<300>>>>]
FileF == [name |-> "F.TXT", suffix |-> ".TXT", loads |-> TRUE,  texts |-> <<<<>>>>]
FileG == [name |-> "g.md",  suffix |-> ".md",  loads |-> TRUE,
          texts |-> <<<<450, 451, 451, 451>>>>]
FileH == [name |-> "h.pdf", suffix |-> ".pdf", loads |-> TRUE,
          texts |-> <<<<100>>, <<800>>, <<801>>, <<1480>>, <<1481>>, <<300, 900, 200>>>>]
Files == {FileA, FileB, FileC, FileD, FileE, FileF, FileG, FileH}

\* str.lower() on the suffixes that occur.
Lower(s) ==
    CASE s = ".MD"  -> ".md"
      [] s = ".TXT" -> ".txt"
      [] OTHER      -> s

\* Sequences without repetition over S, of length at most n.
ListsUpTo(S, n) ==
    UNION {{l \in [1..k -> S] : \A i, j \in 1..k : i # j => l[i] # l[j]} : k \in 0..n}

SeqFilter(s, Keep(_)) ==
    LET RECURSIVE F(_)
        F(i) == IF i > Len(s) THEN <<>>
                ELSE (IF Keep(s[i]) THEN <<s[i]>> ELSE <<>>) \o F(i + 1)
    IN  F(1)

\* A documents path: either one file (is_file) or a directory whose
\* recursive listing is `entries`.
\* find_files: a file path is returned as it is; a directory yields the
\* files whose lower-cased suffix is supported.
find_files(path) ==
    IF path.is_file THEN path.entries
    ELSE SeqFilter(path.entries, LAMBDA f : Lower(f.suffix) \in {".txt", ".md", ".pdf"})

\* Sum of a sequence of numbers.
RECURSIVE Sum(_)
Sum(s) == IF s = <<>> THEN 0 ELSE Head(s) + Sum(Tail(s))

\* The documents a loader returns for a file that loads: TextLoader yields
\* one document without page metadata, PyPDFLoader one per page, pages
\* numbered from 0.  The source metadata is the file's path under
\* config.DOCS_PATH.
LoaderDocs(f) ==
    [i \in 1..Len(f.texts) |->
        [source |-> <<"my_docs", f.name>>,
         page   |-> IF Lower(f.suffix) = ".pdf" THEN Some(i - 1) ELSE Absent,
         words  |-> f.texts[i],
         len    |-> Sum(f.texts[i])]]

\* Variant: the loop body without try/except, a failing loader's exception
\* leaves load_documents.
LoadOneNoCatch(docs, p) ==
    IF Lower(p.suffix) \in {".txt", ".md", ".pdf"}
    THEN IF p.loads
         THEN [docs |-> docs \o LoaderDocs(p), raised |-> FALSE]
         ELSE [docs |-> docs, raised |-> TRUE]
    ELSE [docs |-> docs, raised |-> FALSE]

\* One iteration of load_documents' loop on file p with `docs` collected so
\* far.  A supported file is loaded inside try/except Exception: a loader
\* that raises is reported and leaves docs as it was, and nothing is raised
\* to the caller; a file of any other suffix matches neither branch.
LoadOne(docs, p) ==
    IF Lower(p.suffix) \in {".txt", ".md", ".pdf"}
    THEN IF p.loads
         THEN [docs |-> docs \o LoaderDocs(p), raised |-> FALSE]
         ELSE [docs |-> docs, raised |-> FALSE]
    ELSE [docs |-> docs, raised |-> FALSE]

\* ---------------------------------------------------------------- chunking
\* A chunk of a document: the characters start .. start + len - 1 of its
\* text, with the document's metadata.
Chunk(doc, start, len) ==
    [source |-> doc.source, page |-> doc.page, start |-> start, len |-> len]

\* Variant: windows that do not overlap.
RECURSIVE WindowsNoOverlap(_, _, _)
WindowsNoOverlap(doc, start, end) ==
    IF start + CHUNK_SIZE >= end
    THEN <<Chunk(doc, start, end - start)>>
    ELSE <<Chunk(doc, start, CHUNK_SIZE)>>
         \o WindowsNoOverlap(doc, start + CHUNK_SIZE, end)

\* RecursiveCharacterTextSplitter on a stretch start .. end - 1 of text that
\* holds no separator: the stretch is split into characters and merged
\* again, which gives windows of CHUNK_SIZE characters, each starting
\* CHUNK_SIZE - CHUNK_OVERLAP after the previous one, until the stretch is
\* covered.
RECURSIVE Windows(_, _, _)
Windows(doc, start, end) ==
    IF start + CHUNK_SIZE >= end
    THEN <<Chunk(doc, start, end - start)>>
    ELSE <<Chunk(doc, start, CHUNK_SIZE)>>
         \o Windows(doc, start + (CHUNK_SIZE - CHUNK_OVERLAP), end)

\* _merge_splits' inner loop after a chunk was emitted: the pieces at the
\* front of the current run are dropped while the run is longer than
\* CHUNK_OVERLAP, or does not leave room for the next piece of length l.
\* A run is [a |-> index of its first piece, off |-> offset of that piece,
\* total |-> its length].
RECURSIVE DropFront(_, _, _)
DropFront(lens, run, l) ==
    IF run.total > CHUNK_OVERLAP \/ (run.total + l > CHUNK_SIZE /\ run.total > 0)
    THEN DropFront(lens, [a |-> run.a + 1, off |-> run.off + lens[run.a],
                          total |-> run.total - lens[run.a]], l)
    ELSE run

\* _merge_splits on pieces lens[i..], each shorter than CHUNK_SIZE, with the
\* current run: a piece that does not fit ends the run as a chunk and the
\* next run keeps the previous one's tail; what is left at the end is the
\* last chunk.
RECURSIVE MergeSplits(_, _, _, _)
MergeSplits(doc, lens, i, run) ==
    IF i > Len(lens)
    THEN IF run.total > 0 THEN <<Chunk(doc, run.off, run.total)>> ELSE <<>>
    ELSE IF run.total + lens[i] > CHUNK_SIZE /\ run.total > 0
    THEN LET kept == DropFront(lens, run, lens[i])
         IN  <<Chunk(doc, run.off, run.total)>>
             \o MergeSplits(doc, lens, i + 1, [kept EXCEPT !.total = @ + lens[i]])
    ELSE MergeSplits(doc, lens, i + 1, [run EXCEPT !.total = @ + lens[i]])

\* _split_text on the words of a text from word i on, `from` being the first
\* word not yet merged: words shorter than CHUNK_SIZE are collected and
\* merged, a longer one is split on its own, after the words collected
\* before it were merged.  `off` maps a word index to its offset.
RECURSIVE SplitWords(_, _, _)
SplitWords(doc, i, from) ==
    LET off(k) == Sum(SubSeq(doc.words, 1, k - 1))
        merged == MergeSplits(doc, SubSeq(doc.words, 1, i - 1), from,
                              [a |-> from, off |-> off(from), total |-> 0])
    IN  IF i > Len(doc.words) THEN merged
        ELSE IF doc.words[i] < CHUNK_SIZE THEN SplitWords(doc, i + 1, from)
        ELSE merged \o Windows(doc, off(i), off(i) + doc.words[i])
                    \o SplitWords(doc, i + 1, i + 1)

\* split_documents: the chunks of every document, in document order; an
\* empty text gives none.
RECURSIVE split_documents(_)
split_documents(docs) ==
    IF docs = <<>> THEN <<>>
    ELSE SplitWords(Head(docs), 1, 1) \o split_documents(Tail(docs))

\* --------------------------------------------------------------- embedding
\* The embedding model, a fixed function of the text (vectors are points
\* of a small line).
EmbedChunk(c) == (c.start \div 100 + c.len \div 100) % 5
EmbedQuery(q) == Len(q) % 5

\* FAISS.from_documents: one vector per chunk, in chunk order.
from_documents(chunks) ==
    [docs |-> chunks, vecs |-> [i \in 1..Len(chunks) |-> EmbedChunk(chunks[i])]]

\* --------------------------------------------------------------- retrieval
Dist(a, b) == IF a >= b THEN a - b ELSE b - a

\* Position of stored vector i among the vectors ordered by distance to qv,
\* ties broken by insertion order.
Rank(vecs, qv, i) ==
    1 + Cardinality({j \in 1..Len(vecs) :
            \/ Dist(vecs[j], qv) < Dist(vecs[i], qv)
            \/ Dist(vecs[j], qv) = Dist(vecs[i], qv) /\ j < i})

\* The positions of the k nearest stored vectors, nearest first.
Search(vecs, qv, k) ==
    LET n == IF Len(vecs) < k THEN Len(vecs) ELSE k
    IN  [r \in 1..n |-> CHOOSE i \in 1..Len(vecs) : Rank(vecs, qv, i) = r]

\* The retriever of the chain: embeds the question, searches the loaded
\* vector store and returns the chunks stored at the positions found.  A
\* position without a stored chunk makes the lookup raise.
Retrieve(vs, q) ==
    LET hits == Search(vs.vecs, EmbedQuery(q), RetrieverK)
    IN  IF \E r \in 1..Len(hits) : hits[r] > Len(vs.docs)
        THEN [raised |-> TRUE, docs |-> <<>>]
        ELSE [raised |-> FALSE, docs |-> [r \in 1..Len(hits) |-> vs.docs[hits[r]]]]

\* ------------------------------------------------------------------- paths
\* config.INDEX_PATH, a relative path, as its components.
INDEX_PATH == <<".", "faiss_index">>

\* Path.resolve(): the absolute path, "." components dropped.
Resolve(p) == <<"/", "cwd">> \o SeqFilter(p, LAMBDA c : c # ".")

\* Path.name: the last component.
PathName(p) == IF p = <<>> THEN "" ELSE p[Len(p)]

\* --------------------------------------------------------- source listing
\* One line of the source list: "\n- Source: <name>" and, with a page,
\* " (Page <page>)"; bold for the markdown form.
SourceLine(bold, name, page) == [bold |-> bold, name |-> name, page |-> page]

\* Variant: without the "if not docs" guard no documents give "\n", a line
\* break with nothing after it.
format_sourcesNoGuard(docs, markdown_format) ==
    IF docs = <<>> THEN <<SourceLine(markdown_format, "", Absent)>>
    ELSE [i \in 1..Len(docs) |->
            SourceLine(markdown_format,
                IF "source" \in DOMAIN docs[i]
                THEN PathName(docs[i].source) ELSE "unknown",
                IF docs[i].page # Absent
                THEN Some(docs[i].page[1] + 1) ELSE Absent)]

\* Variant: the page as the loader numbers it, from 0.
format_sourcesRawPage(docs, markdown_format) ==
    IF docs = <<>> THEN <<>>
    ELSE [i \in 1..Len(docs) |->
            SourceLine(markdown_format,
                IF "source" \in DOMAIN docs[i]
                THEN PathName(docs[i].source) ELSE "unknown",
                docs[i].page)]

\* format_sources: "" for no documents, otherwise one line per document in
\* order, each with the file name of the document's source ("unknown" when
\* it has none) and, when the document has a page, the page plus one.
format_sources(docs, markdown_format) ==
    IF docs = <<>> THEN <<>>
    ELSE [i \in 1..Len(docs) |->
            SourceLine(markdown_format,
                IF "source" \in DOMAIN docs[i]
                THEN PathName(docs[i].source) ELSE "unknown",
                IF docs[i].page # Absent
                THEN Some(docs[i].page[1] + 1) ELSE Absent)]

\* ------------------------------------------------------------------- state
Sessions  == {"s1", "s2"}
Questions == {"", "hi", "what?"}
Answers   == {"blue", "unknown"}
Threads   == {"t1", "t2"}

\* The session id ask uses when its caller gives none.
DefaultSession == "default_session"
AllSessions == Sessions \cup {DefaultSession}

\* The stages of a support conversation.
ASK_FOR_PROBLEM    == "ASK_FOR_PROBLEM"
ASK_FOR_EMAIL      == "ASK_FOR_EMAIL"
AWAITING_FOLLOW_UP == "AWAITING_FOLLOW_UP"
CONVERSATION_DONE  == "CONVERSATION_DONE"

\* What a user types into the chat input at each stage: a problem, an
\* email address, a reply to the solution, and anything after the end.
PromptsAt(stage) ==
    CASE stage = ASK_FOR_PROBLEM    -> {"printer"}
      [] stage = ASK_FOR_EMAIL      -> {"a@x.org", "b@x.org"}
      [] stage = AWAITING_FOLLOW_UP -> {" Done ", "ESCALATE", "why?"}
      [] OTHER                      -> {"ESCALATE", "why?"}
Prompts == UNION {PromptsAt(stage) : stage \in
                    {ASK_FOR_PROBLEM, ASK_FOR_EMAIL, AWAITING_FOLLOW_UP, CONVERSATION_DONE}}

\* What the agent may answer, and the queries it passes to its tool.
Solutions   == {"reboot"}
ToolQueries == {"hi"}

User(content)      == [role |-> "user", content |-> content]
Assistant(content) == [role |-> "assistant", content |-> content]

\* st.session_state after the script's first run; ticket_id 0 is None.
\* `pc` is the script's position ("wait" between runs), `creates` counts the
\* calls of create_ticket (a history field).
NewConversation ==
    [messages |-> <<Assistant("Hello! Please describe your technical problem.")>>,
     conversation_stage |-> ASK_FOR_PROBLEM,
     ticket_id |-> 0,
     user_problem |-> "",
     pc |-> "wait",
     creates |-> 0]

VARIABLES
    docs_path,       \* config.DOCS_PATH as the file system shows it
    disk,            \* the directory config.INDEX_PATH: dir, index.faiss, index.pkl
    bd,              \* the indexing run: position and locals
    builds,          \* indexing runs started
    bot,             \* Chatbot.__init__: position ("none" before, "ready" after)
    ld,              \* _load_vector_store: what load_local has read so far
    vector_store,    \* Chatbot.vector_store
    chat_histories,  \* Chatbot.chat_histories: session id -> history object
    chain,           \* Chatbot.chain exists
    err,             \* the exception __init__ raised
    heap,            \* the ChatMessageHistory objects: object id -> messages
    th,              \* each caller thread's position in ask and its locals
    calls,           \* history variable: the ask calls made, in call order
    headers,         \* app_streamlit's headers: the sheet's first row, once loaded
    ui,              \* st.session_state of each conversation, and its script's position
    sheet,           \* the rows of the ticket spreadsheet
    slack,           \* the notifications posted to the Slack channel
    inputs,          \* chat inputs submitted so far
    tool_by          \* history variable: the conversation behind each ask call

vars == <<docs_path, disk, bd, builds, bot, ld, vector_store, chat_histories,
          chain, err, heap, th, calls, headers, ui, sheet, slack, inputs, tool_by>>

indexVars == <<docs_path, disk, bd, builds>>
botVars   == <<bot, ld, vector_store, chat_histories, chain, err>>
askVars   == <<heap, th, calls>>
uiVars    == <<headers, ui, sheet, slack, inputs, tool_by>>

\* The index an earlier indexing run left on disk.
OldIndex == from_documents(split_documents(LoadOne(<<>>, FileA).docs))

NoDisk   == [dir |-> FALSE, faiss |-> Absent, pkl |-> Absent]
FullDisk == [dir |-> TRUE, faiss |-> Some(OldIndex.vecs), pkl |-> Some(OldIndex.docs)]

IdleBuild  == [pc |-> "idle", paths |-> <<>>, i |-> 0, docs |-> <<>>,
               chunks |-> <<>>, vs |-> Absent]
NoResult   == [kind |-> "none", answer |-> None, sources |-> <<>>]
NoErr      == [type |-> "none", path |-> <<>>]
IdleThread == [pc |-> "idle", sid |-> None, q |-> None, hist |-> 0,
               chat_history |-> <<>>, context |-> <<>>, answer |-> None,
               result |-> NoResult, call |-> 0]

\* The messages of a session as chat_histories shows them (none when the
\* session has no history object).
Messages(s) ==
    IF chat_histories = Absent \/ chat_histories[1][s] = 0 THEN <<>>
    ELSE heap[chat_histories[1][s]]

AllMessages == [s \in AllSessions |-> Messages(s)]

InitCommon ==
    /\ bd = IdleBuild
    /\ builds = 0
    /\ bot = "none"
    /\ ld = Absent
    /\ vector_store = Absent
    /\ chat_histories = Absent
    /\ chain = FALSE
    /\ err = NoErr
    /\ heap = <<>>
    /\ th = [t \in Threads |-> IdleThread]
    /\ calls = <<>>
    /\ headers = "unset"
    /\ ui = [t \in Threads |-> NewConversation]
    /\ sheet = <<>>
    /\ slack = <<>>
    /\ inputs = 0
    /\ tool_by = <<>>

\* The program starts with or without an index on disk, and with a
\* documents directory holding a PDF and a file that does not load.
Init ==
    /\ docs_path = [is_file |-> FALSE, entries |-> <<FileC, FileB>>]
    /\ disk \in {NoDisk, FullDisk}
    /\ InitCommon

\* ------------------------------------------------------- the indexing run
\* document_processor's main block: find the files, load them, split them,
\* build the vector store and save it over config.INDEX_PATH.
BuildStart ==
    /\ bd.pc = "idle"
    /\ builds < MaxBuilds
    /\ builds' = builds + 1
    /\ bd' = [IdleBuild EXCEPT !.pc = "load", !.paths = find_files(docs_path), !.i = 1]
    /\ UNCHANGED <<uiVars, docs_path, disk, botVars, askVars>>

\* load_documents, one file per step.
LoadStep ==
    /\ bd.pc = "load"
    /\ bd.i <= Len(bd.paths)
    /\ LET r == LoadOne(bd.docs, bd.paths[bd.i])
       IN  bd' = IF r.raised
                 THEN [bd EXCEPT !.pc = "load_raised"]
                 ELSE [bd EXCEPT !.docs = r.docs, !.i = bd.i + 1]
    /\ UNCHANGED <<uiVars, docs_path, disk, builds, botVars, askVars>>

\* load_documents returns docs.
LoadReturn ==
    /\ bd.pc = "load"
    /\ bd.i > Len(bd.paths)
    /\ bd' = [bd EXCEPT !.pc = "loaded"]
    /\ UNCHANGED <<uiVars, docs_path, disk, builds, botVars, askVars>>

\* split_documents, then "if chunks:".
Split ==
    /\ bd.pc = "loaded"
    /\ LET chunks == split_documents(bd.docs)
       IN  bd' = [bd EXCEPT !.chunks = chunks,
                            !.pc = IF chunks = <<>> THEN "done" ELSE "embed"]
    /\ UNCHANGED <<uiVars, docs_path, disk, builds, botVars, askVars>>

\* build_and_save_faiss, FAISS.from_documents: the embedding model embeds
\* every chunk, or fails.
BuildIndex ==
    /\ bd.pc = "embed"
    /\ \/ bd' = [bd EXCEPT !.vs = Some(from_documents(bd.chunks)), !.pc = "mkdir"]
       \/ bd' = [bd EXCEPT !.pc = "error"]
    /\ UNCHANGED <<uiVars, docs_path, disk, builds, botVars, askVars>>

\* config.INDEX_PATH.mkdir(parents=True, exist_ok=True)
Mkdir ==
    /\ bd.pc = "mkdir"
    /\ disk' = [disk EXCEPT !.dir = TRUE]
    /\ bd' = [bd EXCEPT !.pc = "save_faiss"]
    /\ UNCHANGED <<uiVars, docs_path, builds, botVars, askVars>>

\* save_local writes index.faiss ...
SaveFaiss ==
    /\ bd.pc = "save_faiss"
    /\ disk' = [disk EXCEPT !.faiss = Some(bd.vs[1].vecs)]
    /\ bd' = [bd EXCEPT !.pc = "save_pkl"]
    /\ UNCHANGED <<uiVars, docs_path, builds, botVars, askVars>>

\* ... and then index.pkl, the chunks the vectors stand for.
SavePkl ==
    /\ bd.pc = "save_pkl"
    /\ disk' = [disk EXCEPT !.pkl = Some(bd.vs[1].docs)]
    /\ bd' = [bd EXCEPT !.pc = "done"]
    /\ UNCHANGED <<uiVars, docs_path, builds, botVars, askVars>>

\* The indexing process ends.
BuildEnd ==
    /\ bd.pc \in {"done", "error", "load_raised"}
    /\ bd' = IdleBuild
    /\ UNCHANGED <<uiVars, docs_path, disk, builds, botVars, askVars>>

\* --------------------------------------------------------- Chatbot.__init__
\* Variant: the error raised for a missing index does not say where the
\* index was expected.
LoadCheckNoPath(exists) ==
    IF exists
    THEN [pc |-> "read_faiss", err |-> [type |-> "none", path |-> <<>>]]
    ELSE [pc |-> "failed", err |-> [type |-> "FileNotFoundError", path |-> <<>>]]

\* _load_vector_store, the existence check: a missing index path raises
\* FileNotFoundError with the resolved path in its message, before
\* chat_histories and chain are assigned.
LoadCheck(exists) ==
    IF exists
    THEN [pc |-> "read_faiss", err |-> NoErr]
    ELSE [pc |-> "failed",
          err |-> [type |-> "FileNotFoundError", path |-> Resolve(INDEX_PATH)]]

CtorBegin ==
    /\ bot \in {"none", "failed"}
    /\ LET c == LoadCheck(disk.dir)
       IN  /\ bot' = c.pc
           /\ err' = c.err
    /\ UNCHANGED <<uiVars, ld, vector_store, chat_histories, chain, indexVars, askVars>>

\* FAISS.load_local reads index.faiss ...
ReadFaiss ==
    /\ bot = "read_faiss"
    /\ IF disk.faiss = Absent
       THEN /\ bot' = "failed"
            /\ err' = [type |-> "RuntimeError", path |-> INDEX_PATH \o <<"index.faiss">>]
            /\ ld' = Absent
       ELSE /\ bot' = "read_pkl"
            /\ ld' = disk.faiss
            /\ err' = err
    /\ UNCHANGED <<uiVars, vector_store, chat_histories, chain, indexVars, askVars>>

\* ... and then index.pkl; __init__ then assigns vector_store, an empty
\* chat_histories and the chain.
ReadPkl ==
    /\ bot = "read_pkl"
    /\ IF disk.pkl = Absent
       THEN /\ bot' = "failed"
            /\ err' = [type |-> "FileNotFoundError", path |-> INDEX_PATH \o <<"index.pkl">>]
            /\ UNCHANGED <<vector_store, chat_histories, chain>>
       ELSE /\ bot' = "ready"
            /\ vector_store' = Some([docs |-> disk.pkl[1], vecs |-> ld[1]])
            /\ chat_histories' = Some([s \in AllSessions |-> 0])
            /\ chain' = TRUE
            /\ err' = err
    /\ ld' = Absent
    /\ UNCHANGED <<uiVars, indexVars, askVars>>

\* -------------------------------------------------------------- Chatbot.ask
Human(q, c) == [type |-> "human", content |-> q, call |-> c]
AI(a, c)    == [type |-> "ai", content |-> a, call |-> c]

\* Variant: every session is kept under one fixed key.
HistoryKeyShared(session_id) == "s1"

\* Variant: the "not in" test is dropped, a new history object is made on
\* every call.
HistoryMissingAlways(histories, session_id) == TRUE

\* get_session_history: the key under which a session's history is kept,
\* and the test that decides whether a new history object is made.
HistoryKey(session_id) == session_id
HistoryMissing(histories, session_id) == histories[HistoryKey(session_id)] = 0

\* Variant: the question is added to the messages handed over as history.
EnterHistoryWithInput(messages, q, c) == Append(messages, Human(q, c))

\* The chat_history handed to the prompt: the stored messages only, the
\* question travels under its own key ("input").
EnterHistory(messages, q, c) == messages

\* Variant: only the input message is recorded.
ExitMessagesInputTwice(q, a, c) == <<Human(q, c), Human(q, c)>>

\* What the wrapper appends once the chain has returned: the input message,
\* then the output message taken from the "answer" key.
ExitMessages(q, a, c) == <<Human(q, c), AI(a, c)>>

\* Variant: the input message is recorded although the chain raised.
ErrorMessagesKeepInput(messages, q, c) == Append(messages, Human(q, c))

\* What the wrapper does to the history object when the chain raised: the
\* append is an end-of-run listener, which a failed run does not reach.
ErrorMessages(messages, q, c) == messages

\* Variant: a query leaves its vector in the store.
StoreAfterQueryAdds(vs, q) == [vs EXCEPT !.vecs = Append(@, EmbedQuery(q))]

\* The vector store after a retriever query: searching reads it.
StoreAfterQuery(vs, q) == vs

SetThread(t, r) == th' = [th EXCEPT ![t] = r]
SetCall(c, status, a) ==
    calls' = [calls EXCEPT ![c] = [@ EXCEPT !.status = status, !.answer = a]]

\* ask is entered: an empty question returns at once.
AskEnter(t, sid, q) ==
    /\ th[t].pc = "idle"
    /\ bot = "ready"
    /\ Len(calls) < MaxAsks
    /\ LET c == Len(calls) + 1
       IN  IF q = ""
           THEN /\ SetThread(t, [IdleThread EXCEPT
                        !.pc = "returned", !.sid = sid, !.q = q, !.call = c,
                        !.result = [kind |-> "value",
                                    answer |-> "Please enter a question.",
                                    sources |-> <<>>]])
                /\ calls' = Append(calls, [sid |-> sid, q |-> q,
                                           status |-> "empty", answer |-> None])
           ELSE /\ SetThread(t, [IdleThread EXCEPT
                        !.pc = "gsh_check", !.sid = sid, !.q = q, !.call = c])
                /\ calls' = Append(calls, [sid |-> sid, q |-> q,
                                           status |-> "running", answer |-> None])
    /\ UNCHANGED <<heap, indexVars, botVars>>

\* ask called by a caller that is not a support conversation.
AskBegin(t, sid, q) == AskEnter(t, sid, q) /\ UNCHANGED uiVars

\* get_session_history: "if session_id not in self.chat_histories"
GshCheck(t) ==
    /\ th[t].pc = "gsh_check"
    /\ SetThread(t, [th[t] EXCEPT !.pc =
            IF HistoryMissing(chat_histories[1], th[t].sid)
            THEN "gsh_create" ELSE "gsh_return"])
    /\ UNCHANGED <<uiVars, heap, calls, indexVars, botVars>>

\* "self.chat_histories[session_id] = ChatMessageHistory()"
GshCreate(t) ==
    /\ th[t].pc = "gsh_create"
    /\ heap' = Append(heap, <<>>)
    /\ chat_histories' = Some([chat_histories[1] EXCEPT ![HistoryKey(th[t].sid)] = Len(heap) + 1])
    /\ SetThread(t, [th[t] EXCEPT !.pc = "gsh_return"])
    /\ UNCHANGED <<uiVars, calls, indexVars, bot, ld, vector_store, chain, err>>

\* "return self.chat_histories[session_id]"
GshReturn(t) ==
    /\ th[t].pc = "gsh_return"
    /\ SetThread(t, [th[t] EXCEPT !.pc = "enter",
                                  !.hist = chat_histories[1][HistoryKey(th[t].sid)]])
    /\ UNCHANGED <<uiVars, heap, calls, indexVars, botVars>>

\* The wrapper reads the history's messages into chat_history.
EnterStep(t) ==
    /\ th[t].pc = "enter"
    /\ SetThread(t, [th[t] EXCEPT !.pc = "retrieve",
            !.chat_history = EnterHistory(heap[th[t].hist], th[t].q, th[t].call)])
    /\ UNCHANGED <<uiVars, heap, calls, indexVars, botVars>>

\* The chain raised: the exception leaves ask.
Raise(t) ==
    /\ heap' = [heap EXCEPT ![th[t].hist] = ErrorMessages(@, th[t].q, th[t].call)]
    /\ SetThread(t, [th[t] EXCEPT !.pc = "raised", !.result = [NoResult EXCEPT !.kind = "ProviderError"]])
    /\ SetCall(th[t].call, "failed", None)

\* The retriever embeds the question and searches the vector store; the
\* embedding model may fail.
RetrieveStep(t) ==
    /\ th[t].pc = "retrieve"
    /\ LET docs == Retrieve(vector_store[1], th[t].q)
       IN  \/ /\ ~docs.raised
              /\ SetThread(t, [th[t] EXCEPT !.pc = "generate", !.context = docs.docs])
              /\ UNCHANGED <<heap, calls>>
           \/ Raise(t)
    /\ vector_store' = Some(StoreAfterQuery(vector_store[1], th[t].q))
    /\ UNCHANGED <<uiVars, indexVars, bot, ld, chat_histories, chain, err>>

\* The chat model answers from the prompt (system text, chat_history,
\* question and context), or fails.
GenerateStep(t) ==
    /\ th[t].pc = "generate"
    /\ \/ /\ \E a \in Answers :
                SetThread(t, [th[t] EXCEPT !.pc = "exit_human", !.answer = a])
          /\ UNCHANGED <<heap, calls>>
       \/ Raise(t)
    /\ UNCHANGED <<uiVars, indexVars, botVars>>

\* The wrapper's end-of-run listener appends the input message ...
ExitHuman(t) ==
    /\ th[t].pc = "exit_human"
    /\ heap' = [heap EXCEPT ![th[t].hist] =
                    Append(@, ExitMessages(th[t].q, th[t].answer, th[t].call)[1])]
    /\ SetThread(t, [th[t] EXCEPT !.pc = "exit_ai"])
    /\ UNCHANGED <<uiVars, calls, indexVars, botVars>>

\* ... and the output message; ask formats the sources and returns.
ExitAI(t) ==
    /\ th[t].pc = "exit_ai"
    /\ heap' = [heap EXCEPT ![th[t].hist] =
                    Append(@, ExitMessages(th[t].q, th[t].answer, th[t].call)[2])]
    /\ SetThread(t, [th[t] EXCEPT !.pc = "returned",
            !.result = [kind |-> "value", answer |-> th[t].answer,
                        sources |-> format_sources(th[t].context, FALSE)]])
    /\ SetCall(th[t].call, "ok", th[t].answer)
    /\ UNCHANGED <<uiVars, indexVars, botVars>>

\* The caller has the result (or the exception) and is free to call again.
AskEnd(t) ==
    /\ th[t].pc \in {"returned", "raised"}
    /\ SetThread(t, IdleThread)
    /\ UNCHANGED <<uiVars, heap, calls, indexVars, botVars>>

\* get_history_as_string: the fixed text for a session without messages,
\* otherwise one "User: ..." or "Assistant: ..." line per message.
get_history_as_string(session_id) ==
    LET history == IF chat_histories = Absent THEN 0 ELSE chat_histories[1][session_id]
    IN  IF history = 0 \/ heap[history] = <<>>
        THEN <<"No history found for this session.">>
        ELSE [i \in 1..Len(heap[history]) |->
                <<IF heap[history][i].type = "human" THEN "User" ELSE "Assistant",
                  heap[history][i].content>>]

\* ------------------------------------------------ the support conversation
\* initialize_resources: the sheet's first row is read, or, when that fails,
\* headers is the empty list.
LoadHeaders ==
    /\ headers = "unset"
    /\ bot = "none"
    /\ headers' \in {"loaded", "empty"}
    /\ UNCHANGED <<ui, sheet, slack, inputs, tool_by, indexVars, botVars, askVars>>

\* prompt.lower().strip() on the prompts that occur.
LowerStrip(s) ==
    CASE s = " Done "  -> "done"
      [] s = "ESCALATE" -> "escalate"
      [] OTHER          -> s

\* Variant: the final else branch also takes the inputs of a conversation
\* that is done.
DispatchElse(stage, prompt) ==
    CASE stage = ASK_FOR_PROBLEM -> "problem"
      [] stage = ASK_FOR_EMAIL   -> "email"
      [] LowerStrip(prompt) \in {"done", "yes", "resolved", "thanks"} -> "done"
      [] LowerStrip(prompt) \in {"agent", "escalate", "human", "escalate to agent"}
                                 -> "escalate"
      [] OTHER                   -> "follow_up"

\* The branch of the state machine an input takes: by stage, and in
\* AWAITING_FOLLOW_UP by the reply; no branch for CONVERSATION_DONE.
Dispatch(stage, prompt) ==
    CASE stage = ASK_FOR_PROBLEM -> "problem"
      [] stage = ASK_FOR_EMAIL   -> "email"
      [] stage = AWAITING_FOLLOW_UP ->
            IF LowerStrip(prompt) \in {"done", "yes", "resolved", "thanks"}
            THEN "done"
            ELSE IF LowerStrip(prompt) \in {"agent", "escalate", "human", "escalate to agent"}
            THEN "escalate"
            ELSE "follow_up"
      [] OTHER                   -> "none"

\* Variant: a follow-up question starts the conversation over.
StageAfterRestart(stage, branch) ==
    CASE branch = "problem"   -> ASK_FOR_EMAIL
      [] branch = "email"     -> AWAITING_FOLLOW_UP
      [] branch \in {"done", "escalate"} -> CONVERSATION_DONE
      [] branch = "follow_up" -> ASK_FOR_PROBLEM
      [] OTHER                -> stage

\* The stage a branch that runs to its end leaves.
StageAfter(stage, branch) ==
    CASE branch = "problem"   -> ASK_FOR_EMAIL
      [] branch = "email"     -> AWAITING_FOLLOW_UP
      [] branch \in {"done", "escalate"} -> CONVERSATION_DONE
      [] OTHER                -> stage

\* create_ticket's row: a fresh id, the problem, the email, "In Progress".
NewTicket(id, content, email) ==
    [ticket_id |-> id, ticket_content |-> content, ticket_by |-> email,
     ticket_status |-> "In Progress", solution |-> ""]

\* update_ticket_solution: the row of the ticket gets the solution, unless
\* the sheet call fails or headers has no "solution" (both are caught).
update_ticket_solution(rows, ticket_id, hdrs, solution, ok) ==
    [i \in 1..Len(rows) |->
        IF rows[i].ticket_id = ticket_id /\ hdrs = "loaded" /\ ok
        THEN [rows[i] EXCEPT !.solution = solution] ELSE rows[i]]

\* update_ticket_feedback: the row of the ticket gets the status, unless
\* sheet.find fails or finds nothing, or headers has no "ticket_status"
\* (every exception is caught and only printed).
update_ticket_feedback(rows, ticket_id, hdrs, status, ok) ==
    [i \in 1..Len(rows) |->
        IF rows[i].ticket_id = ticket_id /\ hdrs = "loaded" /\ ok
        THEN [rows[i] EXCEPT !.ticket_status = status] ELSE rows[i]]

SetUi(t, r) == ui' = [ui EXCEPT ![t] = r]

\* One chat input of conversation t, up to the end of its script run or to
\* the point where the script calls the solution agent.  The user's message
\* is appended first.  `ok` is the outcome of the run's spreadsheet call
\* and `sent` that of chat_postMessage ("sent", "not_sent" when the token is
\* missing or Slack refuses, "raised" for any other exception).
Input(t, prompt, ok, sent) ==
    /\ bot = "ready"
    /\ headers # "unset"
    /\ ui[t].pc = "wait"
    /\ prompt \in PromptsAt(ui[t].conversation_stage)
    /\ inputs < MaxInputs
    /\ inputs' = inputs + 1
    /\ LET c      == ui[t]
           msgs   == Append(c.messages, User(prompt))
           branch == Dispatch(c.conversation_stage, prompt)
           after  == StageAfter(c.conversation_stage, branch)
       IN  CASE branch = "problem" ->
                  /\ ok /\ sent = "not_sent"
                  /\ SetUi(t, [c EXCEPT
                        !.user_problem = prompt,
                        !.conversation_stage = after,
                        !.messages = Append(msgs, Assistant("Please provide your email address."))])
                  /\ UNCHANGED <<sheet, slack>>
             [] branch = "email" ->
                  /\ sent = "not_sent"
                  /\ IF ok
                     THEN /\ sheet' = Append(sheet,
                                  NewTicket(Len(sheet) + 1, c.user_problem, prompt))
                          /\ SetUi(t, [c EXCEPT !.messages = msgs,
                                  !.ticket_id = Len(sheet) + 1,
                                  !.creates = @ + 1,
                                  !.pc = "agent"])
                     ELSE /\ sheet' = sheet
                          /\ SetUi(t, [c EXCEPT !.messages = msgs, !.creates = @ + 1])
                  /\ UNCHANGED slack
             [] branch = "done" ->
                  /\ sent = "not_sent"
                  /\ sheet' = update_ticket_feedback(sheet, c.ticket_id, headers, "Resolved", ok)
                  /\ SetUi(t, [c EXCEPT
                        !.conversation_stage = after,
                        !.messages = Append(msgs, Assistant("I've marked the ticket as resolved."))])
                  /\ UNCHANGED slack
             [] branch = "escalate" ->
                  /\ sheet' = update_ticket_feedback(sheet, c.ticket_id, headers, "Escalated", ok)
                  /\ slack' = IF sent = "sent"
                              THEN Append(slack, [ticket_id |-> c.ticket_id,
                                                  content |-> c.user_problem,
                                                  email |-> msgs[4].content])
                              ELSE slack
                  /\ IF sent = "raised"
                     THEN SetUi(t, [c EXCEPT !.messages = msgs])
                     ELSE SetUi(t, [c EXCEPT
                             !.conversation_stage = after,
                             !.messages = Append(msgs, Assistant("I have escalated your ticket."))])
             [] branch = "follow_up" ->
                  /\ ok /\ sent = "not_sent"
                  /\ SetUi(t, [c EXCEPT !.messages = msgs, !.pc = "agent"])
                  /\ UNCHANGED <<sheet, slack>>
             [] OTHER ->
                  /\ ok /\ sent = "not_sent"
                  /\ SetUi(t, [c EXCEPT !.messages = msgs])
                  /\ UNCHANGED <<sheet, slack>>
    /\ UNCHANGED <<headers, tool_by, indexVars, botVars, askVars>>

\* The agent calls knowledge_base_tool(query), which calls
\* rag_chatbot.ask(question=query): no session id is passed.
AgentTool(t, query) ==
    /\ ui[t].pc = "agent"
    /\ AskEnter(t, DefaultSession, query)
    /\ SetUi(t, [ui[t] EXCEPT !.pc = "tool"])
    /\ tool_by' = Append(tool_by, t)
    /\ UNCHANGED <<headers, sheet, slack, inputs>>

\* ask has returned: the tool's text goes back to the agent.
ToolReturn(t) ==
    /\ ui[t].pc = "tool"
    /\ th[t].pc = "returned"
    /\ SetThread(t, IdleThread)
    /\ SetUi(t, [ui[t] EXCEPT !.pc = "agent"])
    /\ UNCHANGED <<headers, sheet, slack, inputs, tool_by, heap, calls, indexVars, botVars>>

\* ask has raised: the exception leaves the tool, the agent and the script
\* run.
ToolRaise(t) ==
    /\ ui[t].pc = "tool"
    /\ th[t].pc = "raised"
    /\ SetThread(t, IdleThread)
    /\ SetUi(t, [ui[t] EXCEPT !.pc = "wait"])
    /\ UNCHANGED <<headers, sheet, slack, inputs, tool_by, heap, calls, indexVars, botVars>>

\* solution_agent.invoke ends: it raises (the script run ends there), or it
\* returns a solution.  In ASK_FOR_EMAIL the solution is written to the
\* ticket and the stage becomes AWAITING_FOLLOW_UP; in AWAITING_FOLLOW_UP
\* the stage stays.  The reply is appended in both.
AgentFinish(t, returns, ok) ==
    /\ ui[t].pc = "agent"
    /\ LET c == ui[t]
           branch == IF c.conversation_stage = ASK_FOR_EMAIL THEN "email" ELSE "follow_up"
       IN  IF ~returns
           THEN /\ ok
                /\ SetUi(t, [c EXCEPT !.pc = "wait"])
                /\ sheet' = sheet
           ELSE /\ \E solution \in Solutions :
                     sheet' = IF branch = "email"
                              THEN update_ticket_solution(sheet, c.ticket_id, headers, solution, ok)
                              ELSE sheet
                /\ branch = "follow_up" => ok
                /\ SetUi(t, [c EXCEPT
                        !.pc = "wait",
                        !.conversation_stage = StageAfter(c.conversation_stage, branch),
                        !.messages = Append(c.messages,
                            Assistant(IF branch = "email"
                                      THEN "Ticket has been created. Did this solution resolve your issue?"
                                      ELSE "Does this help?"))])
    /\ UNCHANGED <<headers, slack, inputs, tool_by, indexVars, botVars, askVars>>

\* ----------------------------------------------------------- specifications
BuildNext ==
    \/ BuildStart \/ LoadStep \/ LoadReturn \/ Split \/ BuildIndex
    \/ Mkdir \/ SaveFaiss \/ SavePkl \/ BuildEnd

CtorNext == CtorBegin \/ ReadFaiss \/ ReadPkl

AskOf(t) ==
    \/ \E sid \in Sessions, q \in Questions : AskBegin(t, sid, q)
    \/ GshCheck(t)
    \/ GshCreate(t)
    \/ GshReturn(t)
    \/ EnterStep(t)
    \/ RetrieveStep(t)
    \/ GenerateStep(t)
    \/ ExitHuman(t)
    \/ ExitAI(t)
    \/ AskEnd(t)

\* Callers on concurrent threads share one Chatbot, loaded from the index
\* the program found on disk.
Next == CtorNext \/ \E t \in Threads : AskOf(t)

Spec == Init /\ [][Next]_vars

\* One operation at a time: an indexing run, a construction or an ask
\* begins only when no other is under way.
Quiet ==
    /\ bd.pc = "idle"
    /\ bot \in {"none", "ready", "failed"}
    /\ \A t \in Threads : th[t].pc = "idle"

AskRest(t) ==
    \/ GshCheck(t) \/ GshCreate(t) \/ GshReturn(t) \/ EnterStep(t)
    \/ RetrieveStep(t) \/ GenerateStep(t) \/ ExitHuman(t) \/ ExitAI(t)
    \/ AskEnd(t)

NextSeq ==
    \/ Quiet /\ BuildStart
    \/ Quiet /\ CtorBegin
    \/ Quiet /\ \E t \in Threads, sid \in Sessions, q \in Questions : AskBegin(t, sid, q)
    \/ LoadStep \/ LoadReturn \/ Split \/ BuildIndex
    \/ Mkdir \/ SaveFaiss \/ SavePkl \/ BuildEnd
    \/ ReadFaiss \/ ReadPkl
    \/ \E t \in Threads : AskRest(t)

SpecSeq == Init /\ [][NextSeq]_vars

\* The indexing run beside a process that loads the index and answers
\* questions on one thread.
NextIndex == BuildNext \/ CtorNext \/ AskOf("t1")

SpecIndex == Init /\ [][NextIndex]_vars

\* The indexing run alone, over every documents path of the bounded file
\* system: a directory listing of up to MaxPaths files, or a single file.
InitLoad ==
    /\ docs_path \in
          {[is_file |-> FALSE, entries |-> l] : l \in ListsUpTo(Files, MaxPaths)}
          \cup {[is_file |-> TRUE, entries |-> <<f>>] : f \in Files}
    /\ disk = NoDisk
    /\ InitCommon

SpecLoad == InitLoad /\ [][BuildNext]_vars

\* The Streamlit application with one conversation: the resources are
\* initialized once (headers, then the agent with its Chatbot), then the
\* conversation's script runs once per chat input.
ConversationOf(t) ==
    \/ \E prompt \in Prompts, ok \in BOOLEAN, sent \in {"sent", "not_sent", "raised"} :
          Input(t, prompt, ok, sent)
    \/ \E query \in ToolQueries : AgentTool(t, query)
    \/ GshCheck(t) \/ GshCreate(t) \/ GshReturn(t) \/ EnterStep(t)
    \/ RetrieveStep(t) \/ GenerateStep(t) \/ ExitHuman(t) \/ ExitAI(t)
    \/ ToolReturn(t)
    \/ ToolRaise(t)
    \/ \E returns \in BOOLEAN, ok \in BOOLEAN : AgentFinish(t, returns, ok)

NextUI ==
    \/ LoadHeaders
    \/ (headers # "unset" /\ CtorBegin)
    \/ ReadFaiss
    \/ ReadPkl
    \/ ConversationOf("t1")

SpecUI == Init /\ [][NextUI]_vars

\* Two conversations sharing the cached agent, their script runs one after
\* the other, with a spreadsheet, an agent and a Slack that do not fail.
SharedOf(t) ==
    \/ /\ \A u \in Threads : ui[u].pc = "wait"
       /\ \E prompt \in Prompts : Input(t, prompt, TRUE, "not_sent")
    \/ \E query \in ToolQueries : AgentTool(t, query)
    \/ GshCheck(t) \/ GshCreate(t) \/ GshReturn(t) \/ EnterStep(t)
    \/ RetrieveStep(t) \/ GenerateStep(t) \/ ExitHuman(t) \/ ExitAI(t)
    \/ ToolReturn(t)
    \/ ToolRaise(t)
    \/ AgentFinish(t, TRUE, TRUE)

NextShared ==
    \/ LoadHeaders
    \/ (headers # "unset" /\ CtorBegin)
    \/ ReadFaiss
    \/ ReadPkl
    \/ \E t \in Threads : SharedOf(t)

SpecShared == Init /\ [][NextShared]_vars

\* The indexes a Chatbot can be given besides the one of a.txt: the index of
\* a PDF, whose chunks carry pages; an index without vectors; an index with
\* a chunk whose metadata has no source.
PdfIndex   == from_documents(split_documents(LoadOne(<<>>, FileC).docs))
EmptyIndex == [docs |-> <<>>, vecs |-> <<>>]
BareIndex  == from_documents(<<[page |-> Absent, start |-> 0, len |-> 300]>>
                             \o split_documents(LoadOne(<<>>, FileC).docs))
DiskOf(index) == [dir |-> TRUE, faiss |-> Some(index.vecs), pkl |-> Some(index.docs)]

\* One caller asking a Chatbot built on any of these indexes.
InitAnswer ==
    /\ docs_path = [is_file |-> FALSE, entries |-> <<FileC, FileB>>]
    /\ disk \in {DiskOf(OldIndex), DiskOf(PdfIndex), DiskOf(EmptyIndex), DiskOf(BareIndex)}
    /\ InitCommon

NextAnswer == CtorNext \/ AskOf("t1")

SpecAnswer == InitAnswer /\ [][NextAnswer]_vars

\* ------------------------------------------------------------------ claims
IsPrefix(a, b) == Len(a) <= Len(b) /\ SubSeq(b, 1, Len(a)) = a

\* The two turns of call c, once it has returned an answer.
TurnsOf(c) ==
    IF calls[c].status = "ok"
    THEN <<Human(calls[c].q, c), AI(calls[c].answer, c)>>
    ELSE <<>>

\* The turns of the first n calls that were made under session s, in call
\* order.
RECURSIVE TurnsUpTo(_, _)
TurnsUpTo(s, n) ==
    IF n = 0 THEN <<>>
    ELSE TurnsUpTo(s, n - 1) \o (IF calls[n].sid = s THEN TurnsOf(n) ELSE <<>>)

\* C1: Session isolation.  Whatever the interleaving of asks under two
\* session ids, every turn in the history stored for a session was appended
\* by an ask made under that session, and every line get_history_as_string
\* returns for it renders a turn of such an ask.
C1_SessionIsolation ==
    \A s \in Sessions :
        /\ \A i \in 1..Len(Messages(s)) : calls[Messages(s)[i].call].sid = s
        /\ LET text == get_history_as_string(s)
           IN  \/ text = <<"No history found for this session.">>
               \/ \A i \in 1..Len(text) :
                     \E c \in 1..Len(calls) :
                        /\ calls[c].sid = s
                        /\ \/ text[i] = <<"User", calls[c].q>>
                           \/ text[i] = <<"Assistant", calls[c].answer>>

\* Two asks under different sessions are both between their two appends.
C1_Witness ==
    /\ th["t1"].pc = "exit_ai" /\ th["t2"].pc = "exit_ai"
    /\ th["t1"].sid = "s1" /\ th["t2"].sid = "s2"
    /\ Len(Messages("s1")) = 1 /\ Len(Messages("s2")) = 1

\* C2: Failure atomicity of ask.  When retrieval or generation fails, ask
\* ends with the provider's error and every session's history is what the
\* earlier successful asks made it: the failed call has added no turn.
C2_FailureAtomic ==
    \A t \in Threads :
        th[t].pc = "raised" =>
            /\ th[t].result.kind = "ProviderError"
            /\ calls[th[t].call].status = "failed"
            /\ \A s \in Sessions : Messages(s) = TurnsUpTo(s, th[t].call - 1)
            /\ \A o \in 1..Len(heap) : \A i \in 1..Len(heap[o]) :
                    heap[o][i].call # th[t].call

\* An ask failed in a session that already held the turns of an earlier ask.
C2_Witness ==
    \E t \in Threads :
        /\ th[t].pc = "raised"
        /\ Len(Messages(th[t].sid)) = 2

\* C3: A successful ask with a non-empty question extends its session's
\* history by exactly the user turn with the question followed by the
\* assistant turn with the returned answer, and no other session's history
\* changes.
C3_TwoTurns ==
    \A t \in Threads :
        (th[t].pc = "returned" /\ th[t].q # "") =>
            /\ th[t].result.kind = "value"
            /\ Messages(th[t].sid) =
                   TurnsUpTo(th[t].sid, th[t].call - 1)
                   \o <<Human(th[t].q, th[t].call),
                        AI(th[t].result.answer, th[t].call)>>
            /\ \A s \in Sessions \ {th[t].sid} :
                   Messages(s) = TurnsUpTo(s, th[t].call - 1)

\* The second successful ask of a session has returned.
C3_Witness ==
    \E t \in Threads :
        /\ th[t].pc = "returned" /\ th[t].q # ""
        /\ Len(Messages(th[t].sid)) = 4

\* C4: Conversation continuity.  The history handed to the answer generator
\* is the ordered sequence of all turns of the earlier successful asks of
\* the same session, and holds no turn of the call being answered.
C4_Continuity ==
    \A t \in Threads :
        th[t].pc = "generate" =>
            /\ th[t].chat_history = TurnsUpTo(th[t].sid, th[t].call - 1)
            /\ \A i \in 1..Len(th[t].chat_history) :
                   th[t].chat_history[i].call # th[t].call

\* After ask("hi") on s1 the next ask on s1 is handed a history with "hi".
C4_Witness ==
    \E t \in Threads :
        /\ th[t].pc = "generate" /\ th[t].sid = "s1" /\ th[t].q = "what?"
        /\ Len(th[t].chat_history) = 2
        /\ th[t].chat_history[1].content = "hi"

\* C5: Session store growth.  A session's history is empty when its id
\* first appears; an id once present stays present, and the history it had
\* is a prefix of the history it has after any step.
Present(s) == chat_histories # Absent /\ chat_histories[1][s] # 0

C5_Growth ==
    [][\A s \in Sessions :
          /\ Present(s) => Present(s)' /\ IsPrefix(Messages(s), Messages(s)')
          /\ (~Present(s) /\ Present(s)') => Messages(s)' = <<>>]_vars

\* A session with two turns is accessed again by a later ask.
C5_Witness ==
    \E t \in Threads :
        /\ th[t].pc = "enter"
        /\ Len(Messages(th[t].sid)) = 2

\* C6: Per-session serialization.  Whatever the interleaving of asks on one
\* session id, every ask that returned has its user turn in the session's
\* history, immediately followed by its own assistant turn.
C6_Serialized ==
    \A c \in 1..Len(calls) :
        calls[c].status = "ok" =>
            \E i \in 1..Len(Messages(calls[c].sid)) - 1 :
                /\ Messages(calls[c].sid)[i] = Human(calls[c].q, c)
                /\ Messages(calls[c].sid)[i + 1] = AI(calls[c].answer, c)

\* C7: Constructing the Chatbot while the index path does not exist fails
\* with a FileNotFoundError that names the resolved index path; the
\* construction goes no further, so there is no vector store, no session
\* map and no chain, and no ask runs on that instance.
C7_MissingIndex ==
    /\ (bot = "failed" /\ ~disk.dir) =>
          /\ err.type = "FileNotFoundError"
          /\ err.path = <<"/", "cwd", "faiss_index">>
          /\ vector_store = Absent /\ chat_histories = Absent /\ ~chain
          /\ \A t \in Threads : th[t].pc = "idle"
    /\ bot \in {"read_faiss", "read_pkl", "ready"} => disk.dir

\* A construction has failed on a missing index path.
C7_Witness == bot = "failed" /\ ~disk.dir

\* C8: Querying never mutates the index.  Once loaded, the vector store
\* (its chunks, their vectors and their order) is the same after every
\* step, asks included; the index on disk changes only in the save steps of
\* an indexing run.
C8_QueryFrame ==
    [][/\ vector_store # Absent => vector_store' = vector_store
       /\ disk' # disk => bd.pc \in {"mkdir", "save_faiss", "save_pkl"}]_vars

\* A question has been answered from the loaded index after the index on
\* disk was rebuilt from other documents.
C8_Witness ==
    /\ th["t1"].pc = "returned" /\ th["t1"].context # <<>>
    /\ vector_store = Some(OldIndex)
    /\ disk.pkl # Absent /\ disk.pkl # Some(OldIndex.docs)

\* load_documents as a whole.
RECURSIVE load_documents(_)
load_documents(paths) ==
    IF paths = <<>> THEN <<>>
    ELSE LoadOne(load_documents(SubSeq(paths, 1, Len(paths) - 1)),
                 paths[Len(paths)]).docs

\* The index the indexing run builds from the documents path.
NewIndex == from_documents(split_documents(load_documents(find_files(docs_path))))

\* C9: Rebuild fencing.  Whenever the index is rebuilt while a load or
\* queries are under way, the vector store a reader holds is the complete
\* old index or the complete new one, and a load fails only for want of an
\* index path.
C9_RebuildFenced ==
    /\ vector_store # Absent => vector_store[1] \in {OldIndex, NewIndex}
    /\ bot = "failed" =>
          (err.type = "FileNotFoundError" /\ err.path = Resolve(INDEX_PATH))

\* The files load_documents has a loader for and whose loader returns.
Loadable(f) == f.loads /\ f.suffix \in {".txt", ".TXT", ".md", ".MD", ".pdf"}

\* The documents of the loadable files among paths[from..], in path order.
RECURSIVE DocsFrom(_, _)
DocsFrom(paths, from) ==
    IF from > Len(paths) THEN <<>>
    ELSE (IF Loadable(paths[from]) THEN LoaderDocs(paths[from]) ELSE <<>>)
         \o DocsFrom(paths, from + 1)

\* C10: load_documents never aborts on a bad file.  Whatever files fail to
\* load, it returns, and what it returns is the documents of every
\* loadable file, in path order, and nothing else.
C10_LoadSkipsBadFiles ==
    /\ bd.pc # "load_raised"
    /\ bd.pc = "loaded" =>
          /\ bd.docs = DocsFrom(bd.paths, 1)
          /\ \A i \in 1..Len(bd.docs) :
                \E j \in 1..Len(bd.paths) :
                    Loadable(bd.paths[j])
                    /\ PathName(bd.docs[i].source) = bd.paths[j].name

\* load_documents has returned the documents of a file that came after a
\* file that failed to load.
C10_Witness ==
    /\ bd.pc = "loaded"
    /\ Len(bd.paths) = 2
    /\ ~bd.paths[1].loads
    /\ bd.docs # <<>>

\* ------------------------------------------------------------ chunk count
\* The indexing run is past split_documents: bd.chunks are its chunks.
SplitDone == bd.pc \in {"embed", "mkdir", "save_faiss", "save_pkl", "done", "error"}

\* The chunks split_documents made of document d (a document is known by
\* its source and page).
ChunksOf(d) ==
    {i \in 1..Len(bd.chunks) :
        bd.chunks[i].source = d.source /\ bd.chunks[i].page = d.page}

\* ceil(a / b) for b > 0.
Ceil(a, b) == (a + b - 1) \div b

\* The spec's chunk count for a text of L characters.
ChunkCount(L) ==
    IF L <= CHUNK_SIZE THEN 1
    ELSE Ceil(L - CHUNK_OVERLAP, CHUNK_SIZE - CHUNK_OVERLAP)

LastMessages(s, n) ==
    IF Len(Messages(s)) < n THEN <<>>
    ELSE SubSeq(Messages(s), Len(Messages(s)) - n + 1, Len(Messages(s)))

\* C11: an ask whose retrieval found no chunk still returns the generator's
\* answer, with an empty source list, and its two turns are the last of the
\* session's history.
C11_EmptyRetrieval ==
    \A t \in Threads :
        (th[t].pc = "returned" /\ th[t].q # "" /\ th[t].context = <<>>) =>
            /\ th[t].answer \in Answers
            /\ th[t].result = [kind |-> "value", answer |-> th[t].answer,
                               sources |-> <<>>]
            /\ LastMessages(th[t].sid, 2) =
                  <<Human(th[t].q, th[t].call), AI(th[t].answer, th[t].call)>>
            /\ calls[th[t].call].status = "ok"

\* An ask on an index without vectors has returned an answer.
C11_Witness ==
    /\ vector_store # Absent
    /\ vector_store[1].vecs = <<>>
    /\ th["t1"].pc = "returned"
    /\ th["t1"].q = "hi"
    /\ th["t1"].context = <<>>
    /\ th["t1"].result.answer \in Answers

\* C13: the source list ask returns has one line per retrieved chunk, in
\* retrieval order; line i shows the last component of chunk i's source
\* path, or "unknown" without one, and chunk i's page plus one exactly when
\* the chunk has a page; without chunks the list is empty.
C13_SourcesFromChunks ==
    \A t \in Threads :
        (th[t].pc = "returned" /\ th[t].q # "") =>
            LET c == th[t].context
                l == th[t].result.sources
            IN  /\ Len(l) = Len(c)
                /\ c = <<>> => l = <<>>
                /\ \A i \in 1..Len(c) :
                      /\ "source" \in DOMAIN c[i] =>
                            l[i].name = c[i].source[Len(c[i].source)]
                      /\ "source" \notin DOMAIN c[i] => l[i].name = "unknown"
                      /\ c[i].page = Absent => l[i].page = Absent
                      /\ c[i].page # Absent => l[i].page = <<c[i].page[1] + 1>>

\* An ask has returned the sources of two chunks, one with a page and one
\* without a source.
C13_Witness ==
    /\ th["t1"].pc = "returned"
    /\ Len(th["t1"].context) = 2
    /\ \E i, j \in 1..2 :
          /\ th["t1"].context[i].page # Absent
          /\ "source" \notin DOMAIN th["t1"].context[j]
    /\ Len(th["t1"].result.sources) = 2

\* ------------------------------------------------- the support conversation
\* C14: the history the answer generator is given for a tool call of one
\* conversation holds only turns of tool calls of that conversation.
C14_OwnSession ==
    \A t \in Threads :
        th[t].pc = "generate" =>
            \A i \in 1..Len(th[t].chat_history) :
                tool_by[th[t].chat_history[i].call] = t

\* The place of a stage in the order of the conversation.
StageIndex(stage) ==
    CASE stage = ASK_FOR_PROBLEM    -> 1
      [] stage = ASK_FOR_EMAIL      -> 2
      [] stage = AWAITING_FOLLOW_UP -> 3
      [] stage = CONVERSATION_DONE  -> 4

\* The user message a script run of conversation t began with, seen from
\* the end of the run: the last message of role "user".
RECURSIVE LastUser(_, _)
LastUser(messages, i) ==
    IF i = 0 THEN ""
    ELSE IF messages[i].role = "user" THEN messages[i].content
    ELSE LastUser(messages, i - 1)

\* C15: the stage changes only to the next stage of ASK_FOR_PROBLEM,
\* ASK_FOR_EMAIL, AWAITING_FOLLOW_UP, CONVERSATION_DONE, only as the last
\* step of the script run of one input, and out of AWAITING_FOLLOW_UP only
\* when that input, lower-cased and trimmed, is a 'done' or an 'escalate'
\* reply; there have never been more changes than inputs.
C15_StageForward ==
    /\ [](\A t \in Threads : StageIndex(ui[t].conversation_stage) - 1 <= inputs)
    /\ [][\A t \in Threads :
            ui'[t].conversation_stage # ui[t].conversation_stage =>
                /\ StageIndex(ui'[t].conversation_stage)
                      = StageIndex(ui[t].conversation_stage) + 1
                /\ ui[t].conversation_stage # CONVERSATION_DONE
                /\ ui'[t].pc = "wait"
                /\ ui[t].conversation_stage = AWAITING_FOLLOW_UP =>
                      LastUser(ui'[t].messages, Len(ui'[t].messages)) \in
                          {" Done ", "ESCALATE"}]_vars

\* The conversation is done, after a follow-up question was answered.
C15_Witness ==
    /\ ui["t1"].conversation_stage = CONVERSATION_DONE
    /\ \E i \in 1..Len(ui["t1"].messages) - 1 :
          /\ ui["t1"].messages[i] = User("why?")
          /\ ui["t1"].messages[i + 1] = Assistant("Does this help?")

\* C16: the email of every notification is the email of the ticket it is
\* about.
C16_EmailOfTicket ==
    \A i \in 1..Len(slack) :
        \E r \in 1..Len(sheet) :
            /\ sheet[r].ticket_id = slack[i].ticket_id
            /\ sheet[r].ticket_by = slack[i].email

\* C17: create_ticket is called at most once in a conversation, with the
\* first user message as the problem; ticket_id is None before the call and
\* from AWAITING_FOLLOW_UP on the id of the one ticket.
C17_OneTicket ==
    \A t \in Threads :
        /\ ui[t].creates <= 1
        /\ ui[t].creates = 0 => ui[t].ticket_id = 0
        /\ ui[t].creates > 0 =>
              \A r \in 1..Len(sheet) :
                  sheet[r].ticket_content = ui[t].messages[2].content
        /\ ui[t].conversation_stage \in {AWAITING_FOLLOW_UP, CONVERSATION_DONE} =>
              /\ Len(sheet) = 1
              /\ ui[t].ticket_id = sheet[1].ticket_id

\* C18: a conversation that is done has no script run calling the agent,
\* and a step that changes it appends one user message and changes nothing
\* else: not the stage, the ticket id or the problem, not the spreadsheet,
\* not Slack, and no ask is made.
C18_DoneIsFinal ==
    /\ [](\A t \in Threads :
            ui[t].conversation_stage = CONVERSATION_DONE =>
                ui[t].pc = "wait" /\ th[t].pc = "idle")
    /\ [][\A t \in Threads :
            (ui[t].conversation_stage = CONVERSATION_DONE /\ ui'[t] # ui[t]) =>
                /\ \E prompt \in Prompts :
                      ui'[t] = [ui[t] EXCEPT !.messages = Append(@, User(prompt))]
                /\ sheet' = sheet
                /\ slack' = slack
                /\ calls' = calls
                /\ th' = th]_vars

\* A conversation that is done has taken an 'escalate' input.
C18_Witness ==
    /\ ui["t1"].conversation_stage = CONVERSATION_DONE
    /\ ui["t1"].messages[Len(ui["t1"].messages)] = User("ESCALATE")
    /\ ui["t1"].messages[Len(ui["t1"].messages) - 1].role = "assistant"

\* C19: at most one notification is sent, for the conversation's ticket, and
\* none unless the ticket's row says 'Escalated'.
C19_EscalatedFirst ==
    /\ Len(slack) <= 1
    /\ \A i \in 1..Len(slack) :
          \E r \in 1..Len(sheet) :
              /\ sheet[r].ticket_id = slack[i].ticket_id
              /\ sheet[r].ticket_status = "Escalated"

====
